---- MODULE Spec2Model ----
(***************************************************************************)
(* The credential rotation engine of VaultPilot                            *)
(* (src/backend/accounts/src/index-v3.js): the two entry points            *)
(* `rotation` (rotate all due) and `rotateCredential` (rotate one by id),  *)
(* the orchestrator rotateCredentialInternal, the provider strategies and  *)
(* the read-back verification, over a credentials table (DynamoDB), a      *)
(* secret store (Secrets Manager), an IAM principal's access keys, the     *)
(* audit table and the notification topic.                                 *)
(*                                                                         *)
(* Every `await` of the code is one step of an invocation; every call to   *)
(* an external service may succeed or raise.                               *)
(***************************************************************************)
EXTENDS Integers, Sequences, FiniteSets, TLC

\* ------------------------------------------------------------------ bounds
MaxInvocations == 1     \* entry-point invocations in one behaviour
MaxFaults == 1          \* faults in one behaviour: external calls that raise (those of
                        \* the verification loop apart) and stale reads
MaxRepeated == 2        \* entry-point invocations in one behaviour of SpecTwice
MaxOverlapping == 2     \* entry-point invocations in one behaviour of SpecConcurrent

\* ------------------------------------------------------- program constants
RotationThreshold == 30 \* getCredentialsToRotate, ':threshold'
RotationPeriod == 90    \* updateCredentialRotation, ':expiresIn'
MaxRetries == 3         \* let retries = 3
Undefined == -1         \* JavaScript's undefined / an absent field
OldValue == 0           \* every value that exists before the first rotation

Procs == {"p1", "p2"}           \* handler invocations (Lambda containers)
CredIds == {"c1", "c2"}         \* ids of the records of the credentials table

\* ------------------------------------------------------------- credentials
\* credential.type: the labels the dispatch of rotateCredentialInternal knows
IAMTypes == {"AWS IAM", "AWS_IAM_KEY"}
DatabaseTypes == {"Database", "RDS_PASSWORD"}
SMTPTypes == {"SMTP", "SMTP_PASSWORD"}
GitHubTypes == {"GitHub", "GITHUB_TOKEN"}
APITokenTypes == {"API Token"}
SecretsManagerTypes == {"SECRETS_MANAGER"}

\* A name is the sequence of its (lower-cased) characters.
\* String.prototype.includes: needle occurs in hay as a contiguous run
Includes(hay, needle) ==
  \E i \in 0..(Len(hay) - Len(needle)) :
     \A j \in 1..Len(needle) : hay[i + j] = needle[j]

\* ------------------------------------------------------------ secret store
FieldNames == {"username", "password", "host", "engine", "smtp_password", "smtp_host", "api_key"}

NoFields == [f \in FieldNames |-> Undefined]

\* A SecretString, by what JSON.parse makes of it:
\*   kind "text"   - not JSON (a generated password, any opaque string, '')
\*   kind "scalar" - JSON, but a number / quoted string, not an object
\*   kind "object" - a JSON object; fields[f] = Undefined when f is absent
Text(v) == [kind |-> "text", val |-> v, fields |-> NoFields]
Scalar(v) == [kind |-> "scalar", val |-> v, fields |-> NoFields]
Object(fs) == [kind |-> "object", val |-> Undefined, fields |-> fs]
ObjectWith(S) == Object([f \in FieldNames |-> IF f \in S THEN OldValue ELSE Undefined])

\* JSON.parse(s): throws on text
JSONParseThrows(s) == s.kind = "text"
\* Object.keys(JSON.parse(s))
Keys(s) == IF s.kind = "object" THEN {f \in FieldNames : s.fields[f] # Undefined} ELSE {}
\* JSON.stringify(secretData) after secretData[f] = v
StringifyWith(s, f, v) == Object([s.fields EXCEPT ![f] = v])

\* The stale value and the current value of a secret: a read that follows a
\* write may still return the value from before it (eventual consistency).
NoSecret == [kind |-> "none", val |-> Undefined, fields |-> NoFields]

\* --------------------------------------------------------------- the state
VARIABLES
  credentialsTable,  \* DynamoDB DYNAMODB_TABLE: id -> credential record
  secrets,           \* Secrets Manager: arn -> [value, stale]
  accessKeys,        \* IAM: the valid access key ids of the owning principal
  auditLogs,         \* the audit table, in append order
  notifications,     \* the messages published to the SNS topic, in order
  now,               \* the clock (new Date()): a request arrives, or the one-second
                     \* wait before the verification passes
  generated,         \* how many passwords / tokens / keys were generated so far
  invocations,       \* entry-point invocations made so far
  faults,            \* faults so far
  local,             \* per invocation: the handler's position and locals
  observed,          \* per invocation: what the current attempt has done so far
  accountsTable,     \* DynamoDB ACCOUNTS_TABLE: the record of the one account
  scan               \* scanAccountInternal: its position and locals

vars == <<credentialsTable, secrets, accessKeys, auditLogs, notifications, now,
          generated, invocations, faults, local, observed, accountsTable, scan>>

ArnOf(id) == IF id = "c1" THEN "arn:c1" ELSE "arn:c2"
Arns == {ArnOf(id) : id \in CredIds}

\* A status whose thresholds take the boundary ages with the later status.
StatusOfAgeInclusive(age) ==
  IF age >= 90 THEN "expired" ELSE IF age >= 75 THEN "expiring" ELSE "active"

\* scanAccountInternal, status: age > 90 ? 'expired' : age > 75 ? 'expiring' : 'active'
StatusOfAge(age) == IF age > 90 THEN "expired" ELSE IF age > 75 THEN "expiring" ELSE "active"
\* scanAccountInternal, expiresIn: 90 - age
ExpiresInOfAge(age) == 90 - age

Metadata(arn, accessKeyId) ==
  [arn |-> arn, accessKeyId |-> accessKeyId, secretAccessKey |-> Undefined,
   password |-> Undefined, token |-> Undefined, lastRotated |-> Undefined,
   description |-> OldValue]

Credential(id, name, type, age, metadata) ==
  [id |-> id, name |-> name, type |-> type, status |-> StatusOfAge(age),
   expiresIn |-> ExpiresInOfAge(age), lastRotated |-> -age, metadata |-> metadata]

NoCredential ==
  [id |-> "", name |-> <<>>, type |-> "", status |-> "", expiresIn |-> 0,
   lastRotated |-> 0, metadata |-> Metadata("", Undefined)]

NoResult == [success |-> FALSE, error |-> ""]
Success == [success |-> TRUE, error |-> ""]
Failure(error) == [success |-> FALSE, error |-> error]

NoResponse == [statusCode |-> 0, message |-> "", results |-> <<>>]

InitFrame ==
  [pc |-> "idle", entry |-> "", credential |-> NoCredential,
   selected |-> <<>>, credentialsToRotate |-> <<>>, rotationResults |-> <<>>,
   strategy |-> "", result |-> NoResult,
   newPassword |-> Undefined, isPlaintext |-> FALSE, secretData |-> NoSecret,
   passwordFieldName |-> "password", retries |-> 0, newAccessKey |-> Undefined,
   response |-> NoResponse]

NoAttempt ==
  [preStatus |-> "", auditAtStart |-> 0, notificationsAtStart |-> 0, startTime |-> 0,
   reads |-> 0, raised |-> 0, written |-> NoSecret, readBack |-> NoSecret]

\* ---------------------------------------------------- the initial inventory
NameDb == <<"d", "b">>
NameSmtp == <<"s", "m", "t", "p">>
NameMailer == <<"m", "a", "i", "l", "e", "r">>
NameApp == <<"a", "p", "p">>
NameGitHub == <<"g", "i", "t", "h", "u", "b">>
NameIam == <<"s", "v", "c", "/", "k", "0">>

\* Days since the last change, as the discovery scan saw them.
InitAges == {0, 70, 80, 95}

DbPayload == ObjectWith({"username", "password"})
SmtpPayload == ObjectWith({"smtp_password", "smtp_host"})
InitPayloads ==
  { Text(OldValue), Scalar(OldValue), DbPayload, SmtpPayload,
    ObjectWith({"password"}), ObjectWith({"api_key"}) }

\* What c1 can be, <<name, type, secret payload>>: every credential kind, every
\* payload shape under the strategies that read it, every name rule of the classifier.
InitKinds ==
  {<<NameIam, "AWS_IAM_KEY", Text(OldValue)>>, <<NameGitHub, "GITHUB_TOKEN", Text(OldValue)>>,
   <<NameApp, "API Token", Text(OldValue)>>, <<NameApp, "Certificate", Text(OldValue)>>}
  \cup {<<NameDb, "RDS_PASSWORD", payload>> : payload \in InitPayloads}
  \cup {<<NameSmtp, "SMTP_PASSWORD", payload>> : payload \in InitPayloads}
  \cup {<<NameApp, "SECRETS_MANAGER", payload>> : payload \in InitPayloads}
  \cup {<<NameDb, "SECRETS_MANAGER", SmtpPayload>>, <<NameDb, "SECRETS_MANAGER", Text(OldValue)>>,
        <<NameSmtp, "SECRETS_MANAGER", DbPayload>>, <<NameMailer, "SECRETS_MANAGER", DbPayload>>}

\* The record of c1 of kind k = <<name, type, payload>>, `age` days old.
C1Record(k, age) ==
  Credential("c1", k[1], k[2], age,
             Metadata(IF k[2] \in IAMTypes THEN "" ELSE ArnOf("c1"),
                      IF k[2] \in IAMTypes THEN OldValue ELSE Undefined))

\* The record of c2, a GitHub token, `age` days old.
C2Record(age) ==
  Credential("c2", NameGitHub, "GITHUB_TOKEN", age, Metadata(ArnOf("c2"), Undefined))

\* The state before the first request: c1 and c2 as given, with `payload` as
\* the secret of c1; `spent` of the faults of the behaviour already used up.
\* The account record before its first scan.
NoAccount == [credentialsFound |-> 0, status |-> "pending"]

\* scanAccountInternal is not running. `written` counts the PutCommands that
\* the credentials table has acknowledged to the running scan.
NoScan == [pc |-> "idle", todo |-> <<>>, totalCredentials |-> 0, written |-> 0]

InitState(c1, c2, payload, spent) ==
  /\ credentialsTable =
       [id \in CredIds |->
          IF id = "c1"
            THEN c1
            ELSE c2]
  /\ secrets = [a \in Arns |->
                  IF a = ArnOf("c1") THEN [value |-> payload, stale |-> payload]
                                     ELSE [value |-> Text(OldValue), stale |-> Text(OldValue)]]
  /\ accessKeys = {OldValue}
  /\ auditLogs = <<>>
  /\ notifications = <<>>
  /\ now = 0
  /\ generated = 0
  /\ invocations = 0
  /\ faults = spent
  /\ local = [p \in Procs |-> InitFrame]
  /\ observed = [p \in Procs |-> NoAttempt]
  /\ accountsTable = NoAccount
  /\ scan = NoScan

Init == \E k \in InitKinds, age \in InitAges : InitState(C1Record(k, age), C2Record(80), k[3], 0)

\* ------------------------------------------------------ the inventory table
\* An update of the status with no key: it reaches every record of the table.
UpdateCredentialStatusEveryRecord(table, credentialId, status) ==
  [id \in DOMAIN table |-> [table[id] EXCEPT !.status = status]]

\* updateCredentialStatus: SET #status = :status
UpdateCredentialStatus(table, credentialId, status) ==
  [table EXCEPT ![credentialId].status = status]

\* A commit that sets the status and nothing else.
UpdateCredentialRotationStatusOnly(table, credentialId, time) ==
  [table EXCEPT ![credentialId].status = "active"]

\* A commit that leaves expiresIn as it was.
UpdateCredentialRotationKeepsExpiry(table, credentialId, time) ==
  [table EXCEPT ![credentialId].lastRotated = time,
                ![credentialId].status = "active"]

\* updateCredentialRotation: SET lastRotated = now, expiresIn = 90, #status = 'active'
UpdateCredentialRotation(table, credentialId, time) ==
  [table EXCEPT ![credentialId].lastRotated = time,
                ![credentialId].expiresIn = RotationPeriod,
                ![credentialId].status = "active"]

\* updateCredentialInStorage: SET #metadata = { ...credential.metadata, ...newValues }
\* (the metadata of the credential object the caller holds, not of the table)
UpdateCredentialInStorage(table, credential, newValues) ==
  [table EXCEPT ![credential.id].metadata =
     [k \in DOMAIN credential.metadata |->
        IF k \in DOMAIN newValues THEN newValues[k] ELSE credential.metadata[k]]]

\* A filter that takes the threshold itself as due.
IsDueInclusive(credential) ==
  credential.expiresIn <= RotationThreshold \/ credential.status = "expiring"

\* getCredentialsToRotate, FilterExpression:
\*   attribute_exists(id) AND (expiresIn < :threshold OR status = :expiring)
IsDue(credential) ==
  credential.expiresIn < RotationThreshold \/ credential.status = "expiring"

DueIds(table) == {id \in CredIds : IsDue(table[id])}

\* The orders in which a table scan can return the ids of S.
Orders(S) ==
  {seq \in UNION {[1..n -> S] : n \in {Cardinality(S)}} :
     \A i, j \in DOMAIN seq : i # j => seq[i] # seq[j]}

\* logActivity: one put into the audit table
AuditRecord(action, credential, status) ==
  [action |-> action, credentialId |-> credential.id, status |-> status]

\* sendNotification: the message published
NotificationMessage(credential, result) ==
  [credentialName |-> credential.name, credentialType |-> credential.type,
   status |-> IF result.success THEN "success" ELSE "failed"]

\* process.env.SNS_TOPIC_ARN is set
SNSTopicConfigured == TRUE

\* ---------------------------------------------------------- external calls
\* A call to an external service raises (or a read returns a stale value).
Raises == faults < MaxFaults /\ faults' = faults + 1
\* A call to an external service returns.
Returns == faults' = faults

\* -------------------------------------------------------------- entry points
InFlight == {q \in Procs : local[q].pc # "idle"}

Before(q, p) == q = "p1" /\ p = "p2"

\* At most `limit` invocations run at the same time, `cap` in one behaviour; a
\* request is served by the first container that is free.
MayStart(p, limit, cap) ==
  /\ local[p].pc = "idle"
  /\ \A q \in Procs : local[q].pc = "idle" => ~Before(q, p)
  /\ Cardinality(InFlight) < limit
  /\ invocations < cap

Respond(statusCode, message, results) ==
  [statusCode |-> statusCode, message |-> message, results |-> results]

\* The attempt on `credential` begins: what holds just before its first write.
BeginAttempt(credential, time) ==
  [NoAttempt EXCEPT !.preStatus = credentialsTable[credential.id].status,
                    !.auditAtStart = Len(auditLogs),
                    !.notificationsAtStart = Len(notifications),
                    !.startTime = time]

\* rotateCredential: from the request to the call of rotateCredentialInternal
RotateCredential(p, limit, cap) ==
  /\ MayStart(p, limit, cap)
  /\ invocations' = invocations + 1
  /\ now' = now + 1
  /\ \/ \* no credentialId in the path: 400
        /\ local' = [local EXCEPT ![p] =
             [InitFrame EXCEPT !.response = Respond(400, "Credential ID is required", <<>>)]]
        /\ UNCHANGED <<observed, faults>>
     \/ \* getCredentialById finds nothing: 404
        /\ Returns
        /\ local' = [local EXCEPT ![p] =
             [InitFrame EXCEPT !.response = Respond(404, "Credential not found", <<>>)]]
        /\ UNCHANGED observed
     \/ \* getCredentialById raises: 500
        /\ Raises
        /\ local' = [local EXCEPT ![p] =
             [InitFrame EXCEPT !.response = Respond(500, "Rotation failed", <<>>)]]
        /\ UNCHANGED observed
     \/ \E credentialId \in CredIds :
          /\ Returns
          /\ local' = [local EXCEPT ![p] =
               [InitFrame EXCEPT !.pc = "rci_start", !.entry = "one",
                                 !.credential = credentialsTable[credentialId]]]
          /\ observed' = [observed EXCEPT ![p] =
               BeginAttempt(credentialsTable[credentialId], now + 1)]
  /\ UNCHANGED <<credentialsTable, secrets, accessKeys, auditLogs, notifications, generated,
                 accountsTable, scan>>

\* rotation: getCredentialsToRotate
Rotation(p, limit, cap) ==
  /\ MayStart(p, limit, cap)
  /\ invocations' = invocations + 1
  /\ now' = now + 1
  /\ \/ \* the scan raises: 500
        /\ Raises
        /\ local' = [local EXCEPT ![p] =
             [InitFrame EXCEPT !.response = Respond(500, "Rotation failed", <<>>)]]
     \/ \E order \in Orders(DueIds(credentialsTable)) :
          /\ Returns
          /\ local' = [local EXCEPT ![p] =
               [InitFrame EXCEPT !.pc = "batch_loop", !.entry = "batch",
                  !.selected = [i \in DOMAIN order |-> credentialsTable[order[i]]],
                  !.credentialsToRotate = [i \in DOMAIN order |-> credentialsTable[order[i]]]]]
  /\ UNCHANGED <<credentialsTable, secrets, accessKeys, auditLogs, notifications,
                 generated, observed,
                 accountsTable, scan>>

\* A loop that ends the pass at the first credential whose rotation failed.
BatchLoopStopsAtFailure(p) ==
  LET frame == local[p]
      stop == \/ frame.credentialsToRotate = <<>>
              \/ /\ frame.rotationResults # <<>>
                 /\ ~frame.rotationResults[Len(frame.rotationResults)].success IN
  /\ frame.pc = "batch_loop"
  /\ IF stop
       THEN /\ local' = [local EXCEPT ![p] =
                 [InitFrame EXCEPT !.response =
                    Respond(200, "Rotation completed", frame.rotationResults)]]
            /\ observed' = [observed EXCEPT ![p] = NoAttempt]
       ELSE /\ local' = [local EXCEPT ![p] =
                 [@ EXCEPT !.pc = "rci_start",
                           !.credential = Head(frame.credentialsToRotate),
                           !.credentialsToRotate = Tail(frame.credentialsToRotate),
                           !.strategy = "",
                           !.result = NoResult]]
            /\ observed' = [observed EXCEPT ![p] =
                 BeginAttempt(Head(frame.credentialsToRotate), now)]
  /\ UNCHANGED <<credentialsTable, secrets, accessKeys, auditLogs, notifications, now,
                 generated, invocations, faults,
                 accountsTable, scan>>

\* rotation: for (const credential of credentialsToRotate), and the final return
BatchLoop(p) ==
  /\ local[p].pc = "batch_loop"
  /\ IF local[p].credentialsToRotate = <<>>
       THEN /\ local' = [local EXCEPT ![p] =
                 [InitFrame EXCEPT !.response =
                    Respond(200, "Rotation completed", local[p].rotationResults)]]
            /\ observed' = [observed EXCEPT ![p] = NoAttempt]
       ELSE /\ local' = [local EXCEPT ![p] =
                 [@ EXCEPT !.pc = "rci_start",
                           !.credential = Head(local[p].credentialsToRotate),
                           !.credentialsToRotate = Tail(local[p].credentialsToRotate),
                           !.strategy = "",
                           !.result = NoResult]]
            /\ observed' = [observed EXCEPT ![p] =
                 BeginAttempt(Head(local[p].credentialsToRotate), now)]
  /\ UNCHANGED <<credentialsTable, secrets, accessKeys, auditLogs, notifications, now,
                 generated, invocations, faults,
                 accountsTable, scan>>

\* ------------------------------------------------- rotateCredentialInternal
\* A strategy returns `result` to rotateCredentialInternal; its locals die.
StrategyReturns(frame, result) ==
  [frame EXCEPT !.pc = "rci_finish", !.result = result,
                !.newPassword = Undefined, !.isPlaintext = FALSE,
                !.secretData = NoSecret, !.passwordFieldName = "password",
                !.retries = 0, !.newAccessKey = Undefined]

\* A switch whose default case reports a success.
DispatchDefaultSucceeds(frame) ==
  LET type == frame.credential.type IN
  IF type \in IAMTypes THEN [frame EXCEPT !.pc = "iam_create", !.strategy = "iam"]
  ELSE IF type \in DatabaseTypes THEN [frame EXCEPT !.pc = "secret_read", !.strategy = "database"]
  ELSE IF type \in SMTPTypes THEN [frame EXCEPT !.pc = "secret_read", !.strategy = "smtp"]
  ELSE IF type \in GitHubTypes THEN [frame EXCEPT !.pc = "token_store", !.strategy = "github"]
  ELSE IF type \in APITokenTypes THEN [frame EXCEPT !.pc = "token_store", !.strategy = "api_token"]
  ELSE IF type \in SecretsManagerTypes THEN [frame EXCEPT !.pc = "sm_classify", !.strategy = "secrets_manager"]
  ELSE StrategyReturns([frame EXCEPT !.strategy = "unsupported"], Success)

\* switch (credential.type): the strategy and its first step
Dispatch(frame) ==
  LET type == frame.credential.type IN
  IF type \in IAMTypes THEN [frame EXCEPT !.pc = "iam_create", !.strategy = "iam"]
  ELSE IF type \in DatabaseTypes THEN [frame EXCEPT !.pc = "secret_read", !.strategy = "database"]
  ELSE IF type \in SMTPTypes THEN [frame EXCEPT !.pc = "secret_read", !.strategy = "smtp"]
  ELSE IF type \in GitHubTypes THEN [frame EXCEPT !.pc = "token_store", !.strategy = "github"]
  ELSE IF type \in APITokenTypes THEN [frame EXCEPT !.pc = "token_store", !.strategy = "api_token"]
  ELSE IF type \in SecretsManagerTypes THEN [frame EXCEPT !.pc = "sm_classify", !.strategy = "secrets_manager"]
  ELSE StrategyReturns([frame EXCEPT !.strategy = "unsupported"], Failure("Unsupported credential type"))

\* The catch of rotateCredentialInternal: return a failure, log nothing.
RCICatch(frame, error) ==
  [frame EXCEPT !.pc = "rci_returned", !.result = Failure(error)]

\* rotateCredentialInternal: await updateCredentialStatus(credential.id, 'rotating'),
\* then the dispatch on credential.type
RCIStart(p) ==
  /\ local[p].pc = "rci_start"
  /\ \/ /\ Returns
        /\ credentialsTable' =
             UpdateCredentialStatus(credentialsTable, local[p].credential.id, "rotating")
        /\ local' = [local EXCEPT ![p] = Dispatch(@)]
     \/ /\ Raises
        /\ local' = [local EXCEPT ![p] = RCICatch(@, "DynamoDB update failed")]
        /\ UNCHANGED credentialsTable
  /\ UNCHANGED <<secrets, accessKeys, auditLogs, notifications, now, generated,
                 invocations, observed,
                 accountsTable, scan>>

\* An end of the attempt that writes nothing to the inventory after a failure.
FinalWriteOnSuccessOnly(table, frame, time) ==
  IF frame.result.success
    THEN UpdateCredentialRotation(table, frame.credential.id, time)
    ELSE table

\* An end of the attempt that marks the credential of a failed attempt failed.
FinalWriteMarksFailed(table, frame, time) ==
  IF frame.result.success
    THEN UpdateCredentialRotation(table, frame.credential.id, time)
    ELSE UpdateCredentialStatus(table, frame.credential.id, "failed")

\* The inventory write that ends the attempt: if (result.success)
\* updateCredentialRotation(credential.id) else updateCredentialStatus(credential.id, 'active')
FinalWrite(table, frame, time) ==
  IF frame.result.success
    THEN UpdateCredentialRotation(table, frame.credential.id, time)
    ELSE UpdateCredentialStatus(table, frame.credential.id, "active")

RCIFinish(p) ==
  /\ local[p].pc = "rci_finish"
  /\ \/ /\ Returns
        /\ credentialsTable' = FinalWrite(credentialsTable, local[p], now)
        /\ local' = [local EXCEPT ![p].pc = "rci_log"]
     \/ /\ Raises
        /\ local' = [local EXCEPT ![p] = RCICatch(@, "DynamoDB update failed")]
        /\ UNCHANGED credentialsTable
  /\ UNCHANGED <<secrets, accessKeys, auditLogs, notifications, now, generated,
                 invocations, observed,
                 accountsTable, scan>>

\* rotateCredentialInternal: logActivity('rotation' | 'rotation_failed'), return result
RCILog(p) ==
  /\ local[p].pc = "rci_log"
  /\ \/ /\ Returns
        /\ auditLogs' = Append(auditLogs,
             IF local[p].result.success
               THEN AuditRecord("rotation", local[p].credential, "success")
               ELSE AuditRecord("rotation_failed", local[p].credential, "failed"))
     \/ \* the put raises: logActivity swallows it
        /\ Raises
        /\ UNCHANGED auditLogs
  /\ local' = [local EXCEPT ![p].pc = "rci_returned"]
  /\ UNCHANGED <<credentialsTable, secrets, accessKeys, notifications, now, generated,
                 invocations, observed,
                 accountsTable, scan>>

\* rotateCredential: the 200 response after rotateCredentialInternal returned
RotateCredentialReturn(p) ==
  /\ local[p].pc = "rci_returned"
  /\ local[p].entry = "one"
  /\ local' = [local EXCEPT ![p] =
       [InitFrame EXCEPT !.response =
          Respond(200, "Credential rotated successfully", <<local[p].result>>)]]
  /\ observed' = [observed EXCEPT ![p] = NoAttempt]
  /\ UNCHANGED <<credentialsTable, secrets, accessKeys, auditLogs, notifications, now,
                 generated, invocations, faults,
                 accountsTable, scan>>

\* rotation: rotationResults.push(result); await logActivity('rotation', ...)
BatchLog(p) ==
  /\ local[p].pc = "rci_returned"
  /\ local[p].entry = "batch"
  /\ \/ /\ Returns
        /\ auditLogs' = Append(auditLogs,
             AuditRecord("rotation", local[p].credential,
                         IF local[p].result.success THEN "success" ELSE "failed"))
     \/ /\ Raises
        /\ UNCHANGED auditLogs
  /\ local' = [local EXCEPT ![p] =
       [@ EXCEPT !.pc = "batch_notify",
                 !.rotationResults = Append(local[p].rotationResults, local[p].result)]]
  /\ UNCHANGED <<credentialsTable, secrets, accessKeys, notifications, now, generated,
                 invocations, observed,
                 accountsTable, scan>>

\* A loop that takes the credential up again when the publish raised.
BatchNotifyRetriesRotation(p) ==
  /\ local[p].pc = "batch_notify"
  /\ \/ /\ SNSTopicConfigured
        /\ Returns
        /\ notifications' = Append(notifications,
             NotificationMessage(local[p].credential, local[p].result))
        /\ local' = [local EXCEPT ![p].pc = "batch_loop"]
     \/ /\ SNSTopicConfigured
        /\ Raises
        /\ UNCHANGED notifications
        /\ local' = [local EXCEPT ![p] =
             [@ EXCEPT !.pc = "batch_loop",
                       !.credentialsToRotate = <<local[p].credential>> \o @]]
     \/ /\ ~SNSTopicConfigured
        /\ UNCHANGED <<notifications, faults>>
        /\ local' = [local EXCEPT ![p].pc = "batch_loop"]
  /\ UNCHANGED <<credentialsTable, secrets, accessKeys, auditLogs, now, generated,
                 invocations, observed,
                 accountsTable, scan>>

\* rotation: await sendNotification(credential, result)
BatchNotify(p) ==
  /\ local[p].pc = "batch_notify"
  /\ \/ /\ SNSTopicConfigured
        /\ Returns
        /\ notifications' = Append(notifications,
             NotificationMessage(local[p].credential, local[p].result))
     \/ \* the publish raises: swallowed
        /\ SNSTopicConfigured
        /\ Raises
        /\ UNCHANGED notifications
     \/ \* no topic: nothing is published
        /\ ~SNSTopicConfigured
        /\ UNCHANGED <<notifications, faults>>
  /\ local' = [local EXCEPT ![p].pc = "batch_loop"]
  /\ UNCHANGED <<credentialsTable, secrets, accessKeys, auditLogs, now, generated,
                 invocations, observed,
                 accountsTable, scan>>

\* --------------------------------------------------------------- strategies
\* IAM: the number of access keys one user can hold; createAccessKey rejects beyond it.
AccessKeysQuota == 2

\* rotateIAMCredential: iam.createAccessKey
IAMCreateAccessKey(p) ==
  /\ local[p].pc = "iam_create"
  /\ \/ /\ Cardinality(accessKeys) < AccessKeysQuota
        /\ Returns
        /\ generated' = generated + 1
        /\ accessKeys' = accessKeys \cup {generated + 1}
        /\ local' = [local EXCEPT ![p] =
             [@ EXCEPT !.pc = "iam_store", !.newAccessKey = generated + 1]]
     \/ \* the user already holds AccessKeysQuota keys: the call raises LimitExceeded
        /\ Cardinality(accessKeys) >= AccessKeysQuota
        /\ Returns
        /\ local' = [local EXCEPT ![p] = StrategyReturns(@, Failure("IAM call failed"))]
        /\ UNCHANGED <<generated, accessKeys>>
     \/ /\ Raises
        /\ local' = [local EXCEPT ![p] = StrategyReturns(@, Failure("IAM call failed"))]
        /\ UNCHANGED <<generated, accessKeys>>
  /\ UNCHANGED <<credentialsTable, secrets, auditLogs, notifications, now, invocations,
                 observed,
                 accountsTable, scan>>

\* An IAM strategy that goes on to delete the old key when the new key could
\* not be stored.
IAMStoreUnchecked(p) ==
  /\ local[p].pc = "iam_store"
  /\ \/ /\ Returns
        /\ credentialsTable' = UpdateCredentialInStorage(credentialsTable, local[p].credential,
             [accessKeyId |-> local[p].newAccessKey,
              secretAccessKey |-> local[p].newAccessKey,
              lastRotated |-> now])
     \/ /\ Raises
        /\ UNCHANGED credentialsTable
  /\ local' = [local EXCEPT ![p].pc = "iam_delete"]
  /\ UNCHANGED <<secrets, accessKeys, auditLogs, notifications, now, generated,
                 invocations, observed,
                 accountsTable, scan>>

\* rotateIAMCredential: updateCredentialInStorage(credential, {accessKeyId, secretAccessKey, lastRotated})
IAMStore(p) ==
  /\ local[p].pc = "iam_store"
  /\ \/ /\ Returns
        /\ credentialsTable' = UpdateCredentialInStorage(credentialsTable, local[p].credential,
             [accessKeyId |-> local[p].newAccessKey,
              secretAccessKey |-> local[p].newAccessKey,
              lastRotated |-> now])
        /\ local' = [local EXCEPT ![p].pc = "iam_delete"]
     \/ /\ Raises
        /\ local' = [local EXCEPT ![p] = StrategyReturns(@, Failure("DynamoDB update failed"))]
        /\ UNCHANGED credentialsTable
  /\ UNCHANGED <<secrets, accessKeys, auditLogs, notifications, now, generated,
                 invocations, observed,
                 accountsTable, scan>>

\* rotateIAMCredential: iam.deleteAccessKey({AccessKeyId: oldAccessKeyId})
IAMDeleteAccessKey(p) ==
  LET oldAccessKeyId == local[p].credential.metadata.accessKeyId IN
  /\ local[p].pc = "iam_delete"
  /\ \/ /\ oldAccessKeyId \in accessKeys
        /\ Returns
        /\ accessKeys' = accessKeys \ {oldAccessKeyId}
        /\ local' = [local EXCEPT ![p].pc = "restart"]
     \/ \* the principal has no such key: the call raises
        /\ oldAccessKeyId \notin accessKeys
        /\ Returns
        /\ local' = [local EXCEPT ![p] = StrategyReturns(@, Failure("IAM call failed"))]
        /\ UNCHANGED accessKeys
     \/ /\ Raises
        /\ local' = [local EXCEPT ![p] = StrategyReturns(@, Failure("IAM call failed"))]
        /\ UNCHANGED accessKeys
  /\ UNCHANGED <<credentialsTable, secrets, auditLogs, notifications, now, generated,
                 invocations, observed,
                 accountsTable, scan>>

\* rotateGitHubCredential / rotateAPITokenCredential:
\* generateSecureToken, updateCredentialInStorage(credential, {token, lastRotated})
TokenStore(p) ==
  /\ local[p].pc = "token_store"
  /\ generated' = generated + 1
  /\ \/ /\ Returns
        /\ credentialsTable' = UpdateCredentialInStorage(credentialsTable, local[p].credential,
             [token |-> generated + 1, lastRotated |-> now])
        /\ local' = [local EXCEPT ![p].pc = "restart"]
     \/ /\ Raises
        /\ local' = [local EXCEPT ![p] = StrategyReturns(@, Failure("DynamoDB update failed"))]
        /\ UNCHANGED credentialsTable
  /\ UNCHANGED <<secrets, accessKeys, auditLogs, notifications, now, invocations, observed,
                 accountsTable, scan>>

\* A strategy that fails when the restart of the dependent services fails.
RestartServicesFailureFails(p) ==
  /\ local[p].pc = "restart"
  /\ \/ /\ Returns
        /\ local' = [local EXCEPT ![p] = StrategyReturns(@, Success)]
     \/ /\ Raises
        /\ local' = [local EXCEPT ![p] = StrategyReturns(@, Failure("Restart failed"))]
  /\ UNCHANGED <<credentialsTable, secrets, accessKeys, auditLogs, notifications, now,
                 generated, invocations, observed,
                 accountsTable, scan>>

\* restartServices: ecs.updateService returns, or raises and the catch only
\* logs; then the strategy returns { success: true }
RestartServices(p) ==
  /\ local[p].pc = "restart"
  /\ Returns \/ Raises
  /\ local' = [local EXCEPT ![p] = StrategyReturns(@, Success)]
  /\ UNCHANGED <<credentialsTable, secrets, accessKeys, auditLogs, notifications, now,
                 generated, invocations, observed,
                 accountsTable, scan>>

\* const secretId = credential.metadata?.arn || credential.name
\* (every record of a secret carries its arn)
SecretId(credential) == credential.metadata.arn

\* secretsManager.getSecretValue returns `secretString`: the current value, or,
\* as a fault, the value from before the last write (a stale read).
GetSecretValue(secretId, secretString) ==
  \/ secretString = secrets[secretId].value /\ Returns
  \/ /\ secrets[secretId].stale # secrets[secretId].value
     /\ secretString = secrets[secretId].stale
     /\ Raises

ReadValues(secretId) == {secrets[secretId].value, secrets[secretId].stale}

\* A classifier that looks for the SMTP tokens before the database tokens.
TypeByNameSmtpFirst(name) ==
  IF Includes(name, <<"s", "m", "t", "p">>)
       \/ Includes(name, <<"e", "m", "a", "i", "l">>) \/ Includes(name, <<"m", "a", "i", "l">>)
    THEN "SMTP_PASSWORD"
  ELSE IF Includes(name, <<"d", "a", "t", "a", "b", "a", "s", "e">>)
       \/ Includes(name, <<"r", "d", "s">>) \/ Includes(name, <<"d", "b">>)
    THEN "RDS_PASSWORD"
  ELSE ""

\* rotateSecretsManagerCredential: the type the name stands for, "" when none
TypeByName(name) ==
  IF Includes(name, <<"d", "a", "t", "a", "b", "a", "s", "e">>)
       \/ Includes(name, <<"r", "d", "s">>) \/ Includes(name, <<"d", "b">>)
    THEN "RDS_PASSWORD"
  ELSE IF Includes(name, <<"s", "m", "t", "p">>)
       \/ Includes(name, <<"e", "m", "a", "i", "l">>) \/ Includes(name, <<"m", "a", "i", "l">>)
    THEN "SMTP_PASSWORD"
  ELSE ""

\* rotateSecretsManagerCredential: the type the secret's content stands for
TypeByContent(secretString) ==
  LET keys == Keys(secretString) IN
  IF JSONParseThrows(secretString) THEN "RDS_PASSWORD"
  ELSE IF "password" \in keys /\ ("username" \in keys \/ "host" \in keys \/ "engine" \in keys)
    THEN "RDS_PASSWORD"
  ELSE IF "smtp_password" \in keys \/ "smtp_host" \in keys THEN "SMTP_PASSWORD"
  ELSE IF "password" \in keys THEN "RDS_PASSWORD"
  ELSE "UNKNOWN"

\* the routing at the end of rotateSecretsManagerCredential
RouteTo(frame, actualType) ==
  [frame EXCEPT !.pc = "secret_read",
                !.strategy = IF actualType = "RDS_PASSWORD" THEN "database"
                             ELSE IF actualType = "SMTP_PASSWORD" THEN "smtp"
                             ELSE "generic"]

\* A classifier for which a failed read of the secret ends the attempt.
SMClassifyFailsOnReadError(p) ==
  LET credential == local[p].credential IN
  /\ local[p].pc = "sm_classify"
  /\ IF TypeByName(credential.name) # ""
       THEN /\ local' = [local EXCEPT ![p] = RouteTo(@, TypeByName(credential.name))]
            /\ UNCHANGED faults
       ELSE \/ \E secretString \in ReadValues(SecretId(credential)) :
                 /\ GetSecretValue(SecretId(credential), secretString)
                 /\ local' = [local EXCEPT ![p] = RouteTo(@, TypeByContent(secretString))]
            \/ /\ Raises
               /\ local' = [local EXCEPT ![p] =
                    StrategyReturns(@, Failure("Failed to get secret"))]
  /\ UNCHANGED <<credentialsTable, secrets, accessKeys, auditLogs, notifications, now,
                 generated, invocations, observed,
                 accountsTable, scan>>

\* rotateSecretsManagerCredential: classify by name, else by content, then route
SMClassify(p) ==
  LET credential == local[p].credential IN
  /\ local[p].pc = "sm_classify"
  /\ IF TypeByName(credential.name) # ""
       THEN /\ local' = [local EXCEPT ![p] = RouteTo(@, TypeByName(credential.name))]
            /\ UNCHANGED faults
       ELSE \/ \E secretString \in ReadValues(SecretId(credential)) :
                 /\ GetSecretValue(SecretId(credential), secretString)
                 /\ local' = [local EXCEPT ![p] = RouteTo(@, TypeByContent(secretString))]
            \/ \* getSecretValue raises: default to the database type
               /\ Raises
               /\ local' = [local EXCEPT ![p] = RouteTo(@, "RDS_PASSWORD")]
  /\ UNCHANGED <<credentialsTable, secrets, accessKeys, auditLogs, notifications, now,
                 generated, invocations, observed,
                 accountsTable, scan>>

\* rotateDatabaseCredential / rotateSMTPCredential / rotateGenericSecretsManagerCredential:
\* generateSecurePassword, getSecretValue, JSON.parse
SecretRead(p) ==
  LET secretId == SecretId(local[p].credential) IN
  /\ local[p].pc = "secret_read"
  /\ generated' = generated + 1
  /\ \/ \E currentSecret \in ReadValues(secretId) :
          /\ GetSecretValue(secretId, currentSecret)
          /\ local' = [local EXCEPT ![p] =
               [@ EXCEPT !.pc = "secret_write", !.newPassword = generated + 1,
                         !.isPlaintext = JSONParseThrows(currentSecret),
                         !.secretData = currentSecret]]
     \/ \* getSecretValue raises
        /\ Raises
        /\ local' = [local EXCEPT ![p] = StrategyReturns(@, Failure("Failed to get secret"))]
  /\ UNCHANGED <<credentialsTable, secrets, accessKeys, auditLogs, notifications, now,
                 invocations, observed,
                 accountsTable, scan>>

\* A strategy that sets the field `password` whatever the secret holds.
PasswordFieldAlwaysPassword(strategy, secretData) == "password"

\* The field of a JSON secret the strategy sets (passwordFieldName).
PasswordField(strategy, secretData) ==
  IF strategy = "smtp"
    THEN IF secretData.fields["smtp_password"] # Undefined THEN "smtp_password"
         ELSE IF secretData.fields["password"] # Undefined THEN "password"
         ELSE "smtp_password"
    ELSE "password"

\* The SecretString the strategy passes to updateSecret. An assignment to a
\* property of a JSON scalar that does not raise changes nothing.
NewSecretString(frame) ==
  IF frame.isPlaintext THEN Text(frame.newPassword)
  ELSE IF frame.secretData.kind = "object"
    THEN StringifyWith(frame.secretData,
                       PasswordField(frame.strategy, frame.secretData), frame.newPassword)
  ELSE frame.secretData

\* secretData.password = newPassword; secretsManager.updateSecret; the wait of
\* one second before the verification
SecretWrite(p) ==
  LET frame == local[p]
      secretId == SecretId(frame.credential) IN
  /\ frame.pc = "secret_write"
  /\ \/ \* the update is acknowledged
        /\ Returns
        /\ secrets' = [secrets EXCEPT ![secretId] =
             [value |-> NewSecretString(frame), stale |-> @.value]]
        /\ local' = [local EXCEPT ![p] =
             [@ EXCEPT !.pc = "secret_verify", !.retries = MaxRetries,
                       !.passwordFieldName = PasswordField(frame.strategy, frame.secretData)]]
        /\ observed' = [observed EXCEPT ![p].written = NewSecretString(frame)]
        /\ now' = now + 1
     \/ \* the update raises
        /\ Raises
        /\ local' = [local EXCEPT ![p] = StrategyReturns(@, Failure("Failed to update secret"))]
        /\ UNCHANGED <<secrets, observed, now>>
     \/ \* strict mode: the assignment to a property of a JSON scalar raises
        /\ ~frame.isPlaintext /\ frame.secretData.kind = "scalar"
        /\ Returns
        /\ local' = [local EXCEPT ![p] = StrategyReturns(@, Failure("TypeError"))]
        /\ UNCHANGED <<secrets, observed, now>>
  /\ UNCHANGED <<credentialsTable, accessKeys, auditLogs, notifications, generated,
                 invocations,
                 accountsTable, scan>>

\* The message every failure of the verification carries (as a prefix).
VerificationFailed == "Secret update verification failed"

\* A comparison that only asks whether the secret read back holds a password.
VerificationPassesOnAnyPassword(updatedSecret, isPlaintext, passwordFieldName, newPassword) ==
  IF isPlaintext
    THEN updatedSecret.kind = "text"
    ELSE /\ ~JSONParseThrows(updatedSecret)
         /\ updatedSecret.fields[passwordFieldName] # Undefined

\* The comparison of the verification: the whole value of a plaintext secret,
\* the written field of a JSON secret.
VerificationPasses(updatedSecret, isPlaintext, passwordFieldName, newPassword) ==
  IF isPlaintext
    THEN updatedSecret = Text(newPassword)
    ELSE /\ ~JSONParseThrows(updatedSecret)
         /\ updatedSecret.fields[passwordFieldName] = newPassword

\* A retry loop that falls through to the rest of the strategy when its
\* retries are used up.
VerifyReadRaisedFallsThrough(frame) ==
  IF frame.strategy = "generic" THEN StrategyReturns(frame, Failure(VerificationFailed))
  ELSE IF frame.retries - 1 = 0 THEN [frame EXCEPT !.pc = "secret_store", !.retries = 0]
  ELSE [frame EXCEPT !.retries = @ - 1]

\* The catch inside the retry loop: retries--; if (retries === 0) throw.
\* The generic strategy has no loop: its one read raises to the outer catch.
VerifyReadRaised(frame) ==
  IF frame.strategy = "generic" \/ frame.retries - 1 = 0
    THEN StrategyReturns(frame, Failure(VerificationFailed))
    ELSE [frame EXCEPT !.retries = @ - 1]

\* A comparison of the whole payload read back with the whole payload written,
\* for a JSON secret as for a plaintext one.
VerifyReadReturnedWholePayload(frame, updatedSecret) ==
  IF updatedSecret = NewSecretString(frame)
    THEN [frame EXCEPT !.pc = "secret_store"]
    ELSE StrategyReturns(frame, Failure(VerificationFailed))

\* The read of the verification returned updatedSecret: the loop ends, the
\* comparison decides.
VerifyReadReturned(frame, updatedSecret) ==
  IF VerificationPasses(updatedSecret, frame.isPlaintext, frame.passwordFieldName,
                        frame.newPassword)
    THEN [frame EXCEPT !.pc = "secret_store"]
    ELSE StrategyReturns(frame, Failure(VerificationFailed))

\* A verification that writes the old value back when the read-back does not
\* match.
SecretVerifyRollsBack(p) ==
  LET secretId == SecretId(local[p].credential) IN
  /\ local[p].pc = "secret_verify"
  /\ \/ \E updatedSecret \in ReadValues(secretId) :
          /\ GetSecretValue(secretId, updatedSecret)
          /\ local' = [local EXCEPT ![p] = VerifyReadReturned(@, updatedSecret)]
          /\ observed' = [observed EXCEPT ![p].reads = @ + 1,
                                          ![p].readBack = updatedSecret]
          /\ secrets' = IF VerifyReadReturned(local[p], updatedSecret).pc = "secret_store"
                          THEN secrets
                          ELSE [secrets EXCEPT ![secretId] = [value |-> @.stale, stale |-> @.stale]]
     \/ /\ UNCHANGED <<faults, secrets>>
        /\ local' = [local EXCEPT ![p] = VerifyReadRaised(@)]
        /\ observed' = [observed EXCEPT ![p].reads = @ + 1, ![p].raised = @ + 1]
  /\ UNCHANGED <<credentialsTable, accessKeys, auditLogs, notifications, now,
                 generated, invocations,
                 accountsTable, scan>>

\* One read of the verification: getSecretValue, then the comparison or the retry
SecretVerify(p) ==
  LET secretId == SecretId(local[p].credential) IN
  /\ local[p].pc = "secret_verify"
  /\ \/ \E updatedSecret \in ReadValues(secretId) :
          /\ GetSecretValue(secretId, updatedSecret)
          /\ local' = [local EXCEPT ![p] = VerifyReadReturned(@, updatedSecret)]
          /\ observed' = [observed EXCEPT ![p].reads = @ + 1,
                                          ![p].readBack = updatedSecret]
     \/ \* getSecretValue raises: the loop itself bounds how often
        /\ UNCHANGED faults
        /\ local' = [local EXCEPT ![p] = VerifyReadRaised(@)]
        /\ observed' = [observed EXCEPT ![p].reads = @ + 1, ![p].raised = @ + 1]
  /\ UNCHANGED <<credentialsTable, secrets, accessKeys, auditLogs, notifications, now,
                 generated, invocations,
                 accountsTable, scan>>

\* updateCredentialInStorage(credential, {password: newPassword, lastRotated})
SecretStore(p) ==
  /\ local[p].pc = "secret_store"
  /\ \/ /\ Returns
        /\ credentialsTable' = UpdateCredentialInStorage(credentialsTable, local[p].credential,
             [password |-> local[p].newPassword, lastRotated |-> now])
        /\ local' = [local EXCEPT ![p] =
             IF @.strategy = "generic" THEN StrategyReturns(@, Success)
             ELSE [@ EXCEPT !.pc = "restart"]]
     \/ /\ Raises
        /\ local' = [local EXCEPT ![p] = StrategyReturns(@, Failure("DynamoDB update failed"))]
        /\ UNCHANGED credentialsTable
  /\ UNCHANGED <<secrets, accessKeys, auditLogs, notifications, now, generated,
                 invocations, observed,
                 accountsTable, scan>>

\* ------------------------------------------------------------ specification
Step(p) ==
  \/ BatchLoop(p)
  \/ RCIStart(p)
  \/ IAMCreateAccessKey(p)
  \/ IAMStore(p)
  \/ IAMDeleteAccessKey(p)
  \/ TokenStore(p)
  \/ SMClassify(p)
  \/ SecretRead(p)
  \/ SecretWrite(p)
  \/ SecretVerify(p)
  \/ SecretStore(p)
  \/ RestartServices(p)
  \/ RCIFinish(p)
  \/ RCILog(p)
  \/ RotateCredentialReturn(p)
  \/ BatchLog(p)
  \/ BatchNotify(p)

NextWith(limit, cap) ==
  \E p \in Procs : RotateCredential(p, limit, cap) \/ Rotation(p, limit, cap) \/ Step(p)

\* One invocation at a time: the reference behaviour.
Next == NextWith(1, MaxInvocations)

Spec == Init /\ [][Next]_vars

\* Two invocations at a time: requests that overlap, with no fault left to
\* happen (the reads of the verification loop may still raise).
ConcurrentKinds ==
  {<<NameIam, "AWS_IAM_KEY", Text(OldValue)>>, <<NameDb, "RDS_PASSWORD", DbPayload>>,
   <<NameApp, "SECRETS_MANAGER", ObjectWith({"api_key"})>>}

InitConcurrent == \E k \in ConcurrentKinds : InitState(C1Record(k, 80), C2Record(0), k[3], MaxFaults)

NextConcurrent == NextWith(2, MaxOverlapping)

SpecConcurrent == InitConcurrent /\ [][NextConcurrent]_vars

\* One invocation after another: requests that are repeated.
RepeatedKinds ==
  {<<NameIam, "AWS_IAM_KEY", Text(OldValue)>>, <<NameDb, "RDS_PASSWORD", DbPayload>>,
   <<NameApp, "SECRETS_MANAGER", ObjectWith({"api_key"})>>}

InitTwice == \E k \in RepeatedKinds : InitState(C1Record(k, 80), C2Record(80), k[3], 0)

NextTwice == NextWith(1, MaxRepeated)

SpecTwice == InitTwice /\ [][NextTwice]_vars

\* The due-selection over records around the threshold, in every status.
SelectionKinds ==
  {<<NameIam, "AWS_IAM_KEY", Text(OldValue)>>,
   <<NameApp, "SECRETS_MANAGER", ObjectWith({"api_key"})>>}

SelectionStatuses == {"active", "expiring", "expired"}

SelectionExpiresIn == {RotationThreshold - 1, RotationThreshold, RotationThreshold + 1}

InitSelection ==
  \E k \in SelectionKinds, status \in SelectionStatuses, expiresIn \in SelectionExpiresIn :
     InitState([C1Record(k, 0) EXCEPT !.status = status, !.expiresIn = expiresIn],
               C2Record(80), k[3], 0)

SpecSelection == InitSelection /\ [][Next]_vars

\* The secret store has other clients. While a strategy waits to verify its
\* write, the owner of the secret adds or removes a field of the JSON payload,
\* or wraps a plaintext payload into a JSON payload that holds it as `password`.
VerifyKinds ==
  {<<NameIam, "AWS_IAM_KEY", Text(OldValue)>>, <<NameDb, "RDS_PASSWORD", DbPayload>>,
   <<NameDb, "RDS_PASSWORD", Text(OldValue)>>, <<NameSmtp, "SMTP_PASSWORD", SmtpPayload>>,
   <<NameSmtp, "SMTP_PASSWORD", ObjectWith({"password"})>>,
   <<NameApp, "SECRETS_MANAGER", ObjectWith({"api_key"})>>}

InitVerify == \E k \in VerifyKinds : InitState(C1Record(k, 80), C2Record(0), k[3], 0)

\* The fields the owner of a secret edits.
OwnerFields == {"password", "smtp_password", "smtp_host"}

SecretChangedElsewhere ==
  /\ \E p \in Procs :
        LET secretId == SecretId(local[p].credential)
            current == secrets[secretId].value IN
        /\ local[p].pc = "secret_verify"
        /\ \/ \E f \in OwnerFields, v \in {Undefined, OldValue} :
                /\ current.kind = "object"
                /\ current.fields[f] # v
                /\ secrets' = [secrets EXCEPT ![secretId].value = StringifyWith(current, f, v)]
           \/ /\ current.kind = "text"
              /\ secrets' = [secrets EXCEPT ![secretId].value =
                                StringifyWith(Object(NoFields), "password", current.val)]
  /\ UNCHANGED <<credentialsTable, accessKeys, auditLogs, notifications, now,
                 generated, invocations, faults, local, observed,
                 accountsTable, scan>>

NextVerify == Next \/ SecretChangedElsewhere

SpecVerify == InitVerify /\ [][NextVerify]_vars

\* Secrets of type SECRETS_MANAGER under every name rule of the classifier,
\* each with every shape of payload.
NameRds == <<"r", "d", "s", "-", "1">>
NameDatabase == <<"d", "a", "t", "a", "b", "a", "s", "e">>
NameEmail == <<"e", "m", "a", "i", "l">>
NameSmtpDb == <<"s", "m", "t", "p", "-", "d", "b">>
NameEmailRds == <<"e", "m", "a", "i", "l", "/", "r", "d", "s">>

ClassifierNames ==
  {NameDb, NameRds, NameDatabase, NameSmtpDb, NameEmailRds, NameSmtp, NameEmail, NameMailer,
   NameApp}

\* Payloads in which more than one content rule of the classifier applies.
MixedPayloads ==
  { ObjectWith({"password", "host", "smtp_password"}), ObjectWith({"password", "smtp_host"}),
    ObjectWith({"password", "engine"}) }

ClassifierKinds ==
  {<<NameIam, "AWS_IAM_KEY", Text(OldValue)>>}
  \cup {<<name, "SECRETS_MANAGER", payload>> : name \in ClassifierNames, payload \in InitPayloads}
  \cup {<<NameApp, "SECRETS_MANAGER", payload>> : payload \in MixedPayloads}

InitClassifier == \E k \in ClassifierKinds : InitState(C1Record(k, 80), C2Record(0), k[3], 0)

SpecClassifier == InitClassifier /\ [][Next]_vars

\* The discovery scan runs again while the rotation engine serves requests.
\* scanAccountInternal, credentialType: by the name of the secret
ScanType(name) ==
  IF Includes(name, <<"d", "a", "t", "a", "b", "a", "s", "e">>)
       \/ Includes(name, <<"d", "b">>) \/ Includes(name, <<"r", "d", "s">>)
    THEN "RDS_PASSWORD"
  ELSE IF Includes(name, <<"s", "m", "t", "p">>) \/ Includes(name, <<"e", "m", "a", "i", "l">>)
    THEN "SMTP_PASSWORD"
  ELSE IF Includes(name, <<"g", "i", "t", "h", "u", "b">>) THEN "GITHUB_TOKEN"
  ELSE "SECRETS_MANAGER"

\* Records as the scan writes them.
ScanKinds ==
  {<<NameIam, "AWS_IAM_KEY", Text(OldValue)>>, <<NameDb, "RDS_PASSWORD", DbPayload>>,
   <<NameApp, "SECRETS_MANAGER", ObjectWith({"api_key"})>>}

InitScan == \E k \in ScanKinds : InitState(C1Record(k, 80), C2Record(80), k[3], 0)

\* secret.Description, as ListSecrets returns it: the owner of the secret may
\* have edited it since the scan before.
Descriptions == {OldValue, OldValue + 1}

\* scanAccountInternal: the PutCommand of one secret of the account. `age` is
\* the days since LastChangedDate: 0 for a secret that a rotation has written,
\* else what the record in the table, written by the scan before, tells.
ScannedSecret(id, description) ==
  LET credential == credentialsTable[id]
      secret == secrets[credential.metadata.arn]
      age == IF secret.value # secret.stale THEN 0 ELSE 0 - credential.lastRotated IN
  Credential(id, credential.name, ScanType(credential.name), age,
             [Metadata(credential.metadata.arn, Undefined) EXCEPT !.description = description])

ScanAccountPut(id) ==
  LET credential == credentialsTable[id]
      secret == secrets[credential.metadata.arn] IN
  /\ credential.metadata.arn \in Arns
  /\ secret.value # secret.stale \/ credential.lastRotated <= 0
  /\ \E description \in Descriptions :
        credentialsTable' = [credentialsTable EXCEPT ![id] = ScannedSecret(id, description)]
  /\ UNCHANGED <<secrets, accessKeys, auditLogs, notifications, now, generated,
                 invocations, faults, local, observed,
                 accountsTable, scan>>

NextScan == Next \/ \E id \in CredIds : ScanAccountPut(id)

SpecScan == InitScan /\ [][NextScan]_vars

\* The scan over secrets of every age around the thresholds of its status.
ScanAges == {0, 74, 75, 76, 89, 90, 91, 120}

InitScanAges ==
  \E k \in ScanKinds, age \in ScanAges :
     InitState(C1Record(k, age), C2Record(80), k[3], MaxFaults)

SpecScanAges == InitScanAges /\ [][NextScan]_vars

\* scanAccountInternal as a whole, one step per await that changes its state.
\* The access keys ListAccessKeys returns and the secrets ListSecrets returns
\* are those that have a record in the table.
IAMKeyIds == {id \in CredIds : credentialsTable[id].type \in IAMTypes}

SecretIds == {id \in CredIds : credentialsTable[id].metadata.arn \in Arns}

ScanUnchanged ==
  UNCHANGED <<secrets, accessKeys, auditLogs, notifications, now, generated,
              invocations, local, observed>>

\* scanAccountInternal: AssumeRole, getAccount, ListUsers, ListAccessKeys.
\* None of them is inside a try: a failure ends the scan.
ScanStart ==
  /\ scan.pc = "idle"
  /\ \/ /\ Returns
        /\ \E order \in Orders(IAMKeyIds) : scan' = [NoScan EXCEPT !.pc = "iam", !.todo = order]
     \/ /\ Raises
        /\ scan' = [scan EXCEPT !.pc = "failed"]
  /\ ScanUnchanged
  /\ UNCHANGED <<credentialsTable, accountsTable>>

\* scanAccountInternal: totalCredentials++; await PutCommand of one access key.
\* The put is not inside a try.
ScanIAMPut ==
  LET id == Head(scan.todo)
      credential == credentialsTable[id] IN
  /\ scan.pc = "iam"
  /\ scan.todo # <<>>
  /\ \/ /\ Returns
        /\ credentialsTable' = [credentialsTable EXCEPT ![id] =
             [credential EXCEPT !.status = "active", !.expiresIn = 90,
                                !.metadata = Metadata("", credential.metadata.accessKeyId)]]
        /\ scan' = [scan EXCEPT !.todo = Tail(@), !.totalCredentials = @ + 1,
                                !.written = @ + 1]
     \/ /\ Raises
        /\ scan' = [scan EXCEPT !.pc = "failed", !.totalCredentials = @ + 1]
        /\ UNCHANGED credentialsTable
  /\ ScanUnchanged
  /\ UNCHANGED accountsTable

\* scanAccountInternal: ListSecrets of the region, inside the try of the region.
ScanListSecrets ==
  /\ scan.pc = "iam"
  /\ scan.todo = <<>>
  /\ \/ /\ Returns
        /\ \E order \in Orders(SecretIds) : scan' = [scan EXCEPT !.pc = "secrets", !.todo = order]
     \/ /\ Raises
        /\ scan' = [scan EXCEPT !.pc = "update"]
  /\ ScanUnchanged
  /\ UNCHANGED <<credentialsTable, accountsTable>>

\* scanAccountInternal: totalCredentials++; await PutCommand of one secret.
\* A failure is caught by the catch of the region, which only logs: the rest
\* of the region is skipped.
ScanSecretPut ==
  LET id == Head(scan.todo) IN
  /\ scan.pc = "secrets"
  /\ scan.todo # <<>>
  /\ \/ /\ Returns
        /\ \E description \in Descriptions :
              credentialsTable' = [credentialsTable EXCEPT ![id] = ScannedSecret(id, description)]
        /\ scan' = [scan EXCEPT !.todo = Tail(@), !.totalCredentials = @ + 1,
                                !.written = @ + 1]
     \/ /\ Raises
        /\ scan' = [scan EXCEPT !.pc = "update", !.todo = <<>>, !.totalCredentials = @ + 1]
        /\ UNCHANGED credentialsTable
  /\ ScanUnchanged
  /\ UNCHANGED accountsTable

\* scanAccountInternal: UpdateCommand SET credentialsFound = :count, status = 'active'
ScanUpdateAccount ==
  /\ scan.pc = "update" \/ (scan.pc = "secrets" /\ scan.todo = <<>>)
  /\ \/ /\ Returns
        /\ accountsTable' = [credentialsFound |-> scan.totalCredentials, status |-> "active"]
        /\ scan' = [scan EXCEPT !.pc = "done"]
     \/ /\ Raises
        /\ scan' = [scan EXCEPT !.pc = "failed"]
        /\ UNCHANGED accountsTable
  /\ ScanUnchanged
  /\ UNCHANGED credentialsTable

InitScanCount ==
  \E k \in ScanKinds, age \in ScanAges :
     InitState(C1Record(k, age), C2Record(80), k[3], 0)

NextScanCount ==
  \/ ScanStart
  \/ ScanIAMPut
  \/ ScanListSecrets
  \/ ScanSecretPut
  \/ ScanUpdateAccount

SpecScanCount == InitScanCount /\ [][NextScanCount]_vars

\* -------------------------------------------------------------- properties
\* rotateCredentialInternal has returned to the entry point that called it.
Returned(p) == local[p].pc = "rci_returned"

\* The strategy has returned its result to rotateCredentialInternal.
StrategyReturned(p) == local[p].pc = "rci_finish"

\* rotateCredentialInternal is past its final inventory write.
PastFinalWrite(p) == local[p].pc \in {"rci_log", "rci_returned"}

\* The entry point is done with the attempt on local[p].credential.
AttemptEnded(p) ==
  \/ local[p].pc = "rci_returned" /\ local[p].entry = "one"
  \/ local[p].pc = "batch_loop" /\ local[p].credential # NoCredential

\* The strategies that write to the secret store.
SecretStrategies == {"database", "smtp", "generic"}

\* The inventory record of the credential p works on.
Record(p) == credentialsTable[local[p].credential.id]

\* The verification of p's attempt read nothing back, or not what was written.
ReadBackUnmatched(p) ==
  /\ observed[p].written # NoSecret
  /\ observed[p].readBack # observed[p].written

\* C1: when a batch pass or a rotate-one call has returned, no credential is
\* left with status rotating, also when the final inventory write failed.
NoCredentialLeftRotating ==
  (\A p \in Procs : local[p].pc = "idle") =>
     \A id \in CredIds : credentialsTable[id].status # "rotating"

LeftRotating ==
  \E p \in Procs :
     /\ local[p].pc = "idle"
     /\ local[p].response.statusCode = 200
     /\ \E id \in CredIds : credentialsTable[id].status = "rotating"

\* C2: each attempt on one credential, through either entry point, appends
\* exactly one audit record, rotation on success and rotation_failed on
\* failure (stated for the behaviours in which no service call has failed).
ExactlyOneAuditRecord ==
  \A p \in Procs :
     AttemptEnded(p) /\ faults = 0 =>
        /\ Len(auditLogs) = observed[p].auditAtStart + 1
        /\ auditLogs[Len(auditLogs)] =
             IF local[p].result.success
               THEN AuditRecord("rotation", local[p].credential, "success")
               ELSE AuditRecord("rotation_failed", local[p].credential, "failed")

TwoAuditRecords ==
  \E p \in Procs :
     /\ AttemptEnded(p)
     /\ faults = 0
     /\ Len(auditLogs) = observed[p].auditAtStart + 2

\* C3: when an attempt ends with success:false, the status of the credential
\* is the status it had before the attempt (active, expiring or expired).
FailureRestoresStatus ==
  \A p \in Procs :
     Returned(p) /\ ~local[p].result.success =>
        /\ Record(p).status = observed[p].preStatus
        /\ Record(p).status # "rotating"

FailureMadeActive ==
  \E p \in Procs :
     /\ Returned(p)
     /\ ~local[p].result.success
     /\ observed[p].preStatus = "expired"
     /\ Record(p).status = "active"

\* C4: when rotateCredentialInternal returns success:true, the record of the
\* credential has status active, expiresIn 90 and lastRotated at the time of
\* the operation.
SuccessCommits ==
  \A p \in Procs :
     Returned(p) /\ local[p].result.success =>
        /\ Record(p).status = "active"
        /\ Record(p).expiresIn = RotationPeriod
        /\ observed[p].startTime <= Record(p).lastRotated
        /\ Record(p).lastRotated <= now

SuccessCommitted ==
  \E p \in Procs :
     /\ Returned(p)
     /\ local[p].result.success
     /\ observed[p].preStatus = "expired"
     /\ Record(p).status = "active"
     /\ Record(p).lastRotated = now

\* C5: the IAM strategy deletes the old key only after the new key exists and
\* its id is stored in the inventory, and the principal has a valid key in
\* every state.
OldKeyOutlivesStore ==
  /\ accessKeys # {}
  /\ \A p \in Procs :
        /\ local[p].pc \in {"iam_create", "iam_store"} =>
              local[p].credential.metadata.accessKeyId \in accessKeys
        /\ local[p].pc = "iam_delete" =>
              /\ local[p].newAccessKey \in accessKeys
              /\ Record(p).metadata.accessKeyId = local[p].newAccessKey

OldKeyDeleted ==
  \E p \in Procs :
     /\ local[p].strategy = "iam"
     /\ local[p].pc = "restart"
     /\ local[p].credential.metadata.accessKeyId \notin accessKeys
     /\ Record(p).metadata.accessKeyId \in accessKeys

\* C6: database, SMTP, generic: when the write was acknowledged and the
\* verification read nothing back or not the written value, the strategy
\* returns the verification failure, and lastRotated and expiresIn of the
\* record stay what they were.
UnmatchedReadBackFails ==
  \A p \in Procs :
     local[p].strategy \in SecretStrategies /\ ReadBackUnmatched(p) =>
        /\ StrategyReturned(p) => local[p].result = Failure(VerificationFailed)
        /\ local[p].pc \notin {"secret_store", "restart"}
        /\ local[p].pc \notin {"secret_verify"} => ~local[p].result.success
        /\ Record(p).lastRotated = local[p].credential.lastRotated
        /\ Record(p).expiresIn = local[p].credential.expiresIn

StaleReadBackFailed ==
  \E p \in Procs :
     /\ local[p].strategy \in SecretStrategies
     /\ Returned(p)
     /\ observed[p].readBack # NoSecret
     /\ ReadBackUnmatched(p)
     /\ ~local[p].result.success
     /\ Record(p).expiresIn = local[p].credential.expiresIn

\* C7: for every kind of credential, the commit happens only after a read-back
\* of the newly written value has matched.
CommitOnlyAfterVerification ==
  \A p \in Procs :
     PastFinalWrite(p) /\ local[p].result.success =>
        /\ observed[p].written # NoSecret
        /\ observed[p].readBack = observed[p].written

CommittedUnverified ==
  \E p \in Procs :
     /\ Returned(p)
     /\ local[p].result.success
     /\ local[p].strategy \in {"iam", "github", "api_token"}
     /\ observed[p].reads = 0
     /\ Record(p).expiresIn = RotationPeriod

\* C8: database, SMTP: a verification read that returns the value from before
\* the write is retried; the verification fails only after 3 attempts.
StaleReadIsRetried ==
  \A p \in Procs :
     /\ StrategyReturned(p)
     /\ local[p].strategy \in {"database", "smtp"}
     /\ ReadBackUnmatched(p)
     /\ observed[p].readBack = secrets[SecretId(local[p].credential)].stale
     /\ local[p].result = Failure(VerificationFailed)
     => observed[p].reads = MaxRetries

StaleReadFailedAtOnce ==
  \E p \in Procs :
     /\ StrategyReturned(p)
     /\ local[p].strategy \in {"database", "smtp"}
     /\ observed[p].readBack = secrets[SecretId(local[p].credential)].stale
     /\ ReadBackUnmatched(p)
     /\ local[p].result = Failure(VerificationFailed)
     /\ observed[p].reads = 1

\* C9: database, SMTP, generic: reads that raise fewer than 3 times do not
\* fail the verification: it gives up on an unread secret only when 3 reads
\* have raised, so that a later read of the written value is a success.
FewerThanThreeRaisesAreRetried ==
  \A p \in Procs :
     /\ StrategyReturned(p)
     /\ local[p].strategy \in SecretStrategies
     /\ observed[p].written # NoSecret
     /\ observed[p].readBack = NoSecret
     /\ local[p].result = Failure(VerificationFailed)
     => observed[p].raised = MaxRetries

GenericGaveUpAfterOneRaise ==
  \E p \in Procs :
     /\ StrategyReturned(p)
     /\ local[p].strategy = "generic"
     /\ observed[p].written # NoSecret
     /\ observed[p].raised = 1
     /\ observed[p].reads = 1
     /\ local[p].result = Failure(VerificationFailed)

\* C10: the verification reads at most 3 times and ends; when all 3 reads
\* raise, the outcome is the verification failure and never a success.
AtMostThreeVerificationReads ==
  \A p \in Procs :
     /\ observed[p].reads <= MaxRetries
     /\ local[p].pc = "secret_verify" =>
           /\ local[p].retries \in 1..MaxRetries
           /\ observed[p].reads = MaxRetries - local[p].retries
     /\ observed[p].raised = MaxRetries =>
           /\ local[p].pc \notin {"secret_verify", "secret_store", "restart"}
           /\ ~local[p].result.success
           /\ StrategyReturned(p) => local[p].result = Failure(VerificationFailed)

ThreeReadsRaised ==
  \E p \in Procs :
     /\ StrategyReturned(p)
     /\ local[p].strategy \in {"database", "smtp"}
     /\ observed[p].raised = MaxRetries
     /\ local[p].result = Failure(VerificationFailed)


\* C14: in a batch pass a failed credential does not stop the pass: the loop
\* visits the selected credentials in order, each once, and the pass returns
\* one outcome for each of them.
BatchAttemptsEverySelected ==
  /\ [](\A p \in Procs :
          local[p].entry = "batch" =>
             LET frame == local[p]
                 n == Len(frame.selected)
                 done == Len(frame.rotationResults)
                 left == Len(frame.credentialsToRotate) IN
             /\ \A i, j \in 1..n : i # j => frame.selected[i].id # frame.selected[j].id
             /\ frame.credentialsToRotate = SubSeq(frame.selected, n - left + 1, n)
             /\ frame.pc = "batch_loop" => done + left = n
             /\ frame.pc = "batch_notify" =>
                   done + left = n /\ frame.credential = frame.selected[done]
             /\ frame.pc \notin {"batch_loop", "batch_notify"} =>
                   done + left + 1 = n /\ frame.credential = frame.selected[done + 1])
  /\ [][\A p \in Procs :
          local[p].entry = "batch" /\ local'[p].pc = "idle" =>
             /\ local'[p].response.statusCode = 200
             /\ Len(local'[p].response.results) = Len(local[p].selected)]_vars

PassWentOnAfterFailure ==
  \E p \in Procs :
     /\ local[p].entry = "batch"
     /\ local[p].pc = "batch_loop"
     /\ local[p].credentialsToRotate = <<>>
     /\ Len(local[p].rotationResults) = 2
     /\ ~local[p].rotationResults[1].success
     /\ local[p].rotationResults[2].success

\* C15: no inventory record, its metadata included, holds a generated
\* password, token or secret access key.
NoSecretValueInInventory ==
  \A id \in CredIds :
     /\ credentialsTable[id].metadata.password = Undefined
     /\ credentialsTable[id].metadata.token = Undefined
     /\ credentialsTable[id].metadata.secretAccessKey = Undefined

PasswordInInventory ==
  \E id \in CredIds :
     /\ credentialsTable[id].metadata.password # Undefined
     /\ secrets[ArnOf(id)].value.kind = "object"
     /\ credentialsTable[id].metadata.password = secrets[ArnOf(id)].value.fields["password"]

\* C18: a structured payload: the write changes one field (password for
\* database; for SMTP smtp_password if present, else password if present,
\* else a new smtp_password) of the payload the strategy read, and no other
\* field of it.
OneFieldWritten ==
  \A p \in Procs :
     LET frame == local[p]
         current == frame.secretData
         after == secrets[SecretId(frame.credential)].value
         field == IF frame.strategy = "database" THEN "password"
                  ELSE IF current.fields["smtp_password"] # Undefined THEN "smtp_password"
                  ELSE IF current.fields["password"] # Undefined THEN "password"
                  ELSE "smtp_password" IN
     /\ frame.pc = "secret_verify"
     /\ frame.strategy \in {"database", "smtp"}
     /\ current.kind = "object"
     => /\ after.kind = "object"
        /\ after.fields[field] = frame.newPassword
        /\ after.fields[field] # current.fields[field]
        /\ \A f \in FieldNames \ {field} : after.fields[f] = current.fields[f]

SmtpFieldCreated ==
  \E p \in Procs :
     /\ local[p].pc = "secret_verify"
     /\ local[p].strategy = "smtp"
     /\ local[p].secretData = ObjectWith({"api_key"})
     /\ secrets[SecretId(local[p].credential)].value.fields["smtp_password"] = local[p].newPassword
     /\ secrets[SecretId(local[p].credential)].value.fields["api_key"] = OldValue


\* p is inside rotateCredentialInternal: from its first write to its return.
InPipeline(p) == local[p].pc \notin {"idle", "batch_loop", "batch_notify", "rci_returned"}

\* C11: with overlapping invocations, never are two pipelines in flight for
\* the same credential id.
OnePipelinePerCredential ==
  \A p, q \in Procs :
     p # q /\ InPipeline(p) /\ InPipeline(q) =>
        local[p].credential.id # local[q].credential.id

TwoPipelinesOneCredential ==
  \E p, q \in Procs :
     /\ p # q
     /\ local[p].credential.id = local[q].credential.id
     /\ local[p].pc = "secret_write"
     /\ local[q].pc = "secret_write"
     /\ credentialsTable[local[p].credential.id].status = "rotating"

\* C12: the due-selection returns no credential whose status is rotating at
\* selection time, even when its expiresIn is below the threshold.
SelectionSkipsRotating ==
  \A p \in Procs :
     \A i \in DOMAIN local[p].selected : local[p].selected[i].status # "rotating"

RotatingSelected ==
  \E p, q \in Procs :
     /\ InPipeline(q)
     /\ local[q].entry = "one"
     /\ local[p].entry = "batch"
     /\ \E i \in DOMAIN local[p].selected :
           /\ local[p].selected[i].id = local[q].credential.id
           /\ local[p].selected[i].status = "rotating"
           /\ local[p].selected[i].expiresIn < RotationThreshold


\* getCredentialsToRotate has just returned to the batch handler p.
JustSelected(p) ==
  /\ local[p].pc = "batch_loop"
  /\ local[p].entry = "batch"
  /\ local[p].credential = NoCredential

\* C13: the due-selection returns a credential if and only if expiresIn < 30
\* or status = expiring; expiresIn = 30 with another status is not due.
DueSelectionRule ==
  \A p \in Procs :
     JustSelected(p) =>
        /\ {local[p].selected[i].id : i \in DOMAIN local[p].selected} =
             {id \in CredIds : \/ credentialsTable[id].expiresIn < 30
                               \/ credentialsTable[id].status = "expiring"}
        /\ \A i \in DOMAIN local[p].selected :
              local[p].selected[i] = credentialsTable[local[p].selected[i].id]

BoundaryExcluded ==
  \E p \in Procs :
     /\ JustSelected(p)
     /\ credentialsTable["c1"].expiresIn = 30
     /\ credentialsTable["c1"].status = "expired"
     /\ Len(local[p].selected) = 1
     /\ local[p].selected[1].id = "c2"


\* The record was committed by a successful rotation of this behaviour and
\* not changed since (every record starts with lastRotated <= 0).
JustRotated(credential) ==
  /\ credential.lastRotated > 0
  /\ credential.status = "active"
  /\ credential.expiresIn = RotationPeriod

\* C16: a second rotate-one on a credential whose first rotation succeeded
\* finds it not due: its secret and its record stay as they are.
RepeatedRotateOneSkips ==
  \A p \in Procs :
     /\ Returned(p)
     /\ local[p].entry = "one"
     /\ JustRotated(local[p].credential)
     => /\ Record(p) = local[p].credential
        /\ observed[p].written = NoSecret

RotatedTwice ==
  \E p \in Procs :
     /\ Returned(p)
     /\ local[p].entry = "one"
     /\ JustRotated(local[p].credential)
     /\ local[p].result.success
     /\ Record(p).lastRotated > local[p].credential.lastRotated
     /\ Record(p).metadata # local[p].credential.metadata

\* C17: a credential that has been rotated successfully is not selected by
\* a later batch pass, so two passes in a row rotate it at most once.
RotatedIsNotSelectedAgain ==
  \A p \in Procs :
     \A i \in DOMAIN local[p].selected : local[p].selected[i].lastRotated <= 0

SecondPassSelectsNothing ==
  \E p \in Procs :
     /\ JustSelected(p)
     /\ invocations = 2
     /\ local[p].selected = <<>>
     /\ \A id \in CredIds : JustRotated(credentialsTable[id])


\* C19: the verification compares the whole payload read back when the secret
\* was plaintext, and only the field the strategy wrote when the secret is
\* JSON: whatever the other fields hold, the read-back passes exactly when
\* that comparison matches.
VerificationComparesWrittenField ==
  [][\A p \in Procs :
       LET frame == local[p]
           readBack == observed'[p].readBack
           matches == IF frame.isPlaintext
                        THEN readBack = observed[p].written
                        ELSE /\ readBack.kind # "text"
                             /\ readBack.fields[frame.passwordFieldName] = frame.newPassword IN
       /\ frame.pc = "secret_verify"
       /\ observed'[p].reads = observed[p].reads + 1
       /\ observed'[p].raised = observed[p].raised
       => /\ local'[p].pc = "secret_store" <=> matches
          /\ ~matches => local'[p].result = Failure(VerificationFailed)
          /\ frame.secretData.kind = "object" =>
               /\ observed[p].written.fields[frame.passwordFieldName] = frame.newPassword
               /\ frame.secretData.fields[frame.passwordFieldName] # frame.newPassword]_vars

OtherFieldChangedAndPassed ==
  \E p \in Procs :
     /\ local[p].pc = "secret_store"
     /\ local[p].strategy = "smtp"
     /\ local[p].passwordFieldName = "smtp_password"
     /\ observed[p].readBack # observed[p].written
     /\ observed[p].readBack.fields["smtp_host"] # observed[p].written.fields["smtp_host"]
     /\ observed[p].readBack.fields["smtp_password"] = local[p].newPassword


\* C20: a SECRETS_MANAGER credential is classified by its name first, in
\* order: a name with database, db or rds goes to the database strategy
\* whatever the payload and whatever SMTP token the name also holds; otherwise
\* a name with smtp or email goes to the SMTP strategy whatever the payload;
\* the secret is read only when no token of the name matched.
NameComesFirst ==
  [][\A p \in Procs :
       LET name == local[p].credential.name
           database == \/ Includes(name, <<"d", "a", "t", "a", "b", "a", "s", "e">>)
                       \/ Includes(name, <<"d", "b">>)
                       \/ Includes(name, <<"r", "d", "s">>)
           smtp == \/ Includes(name, <<"s", "m", "t", "p">>)
                   \/ Includes(name, <<"e", "m", "a", "i", "l">>) IN
       local[p].pc = "sm_classify" /\ local'[p].pc # "sm_classify" =>
          /\ database => local'[p].strategy = "database"
          /\ ~database /\ smtp => local'[p].strategy = "smtp"
          /\ database \/ smtp => faults' = faults]_vars

DatabaseDespiteSmtp ==
  \E p \in Procs :
     /\ local[p].credential.type \in SecretsManagerTypes
     /\ local[p].credential.name = NameSmtpDb
     /\ local[p].pc = "secret_read"
     /\ local[p].strategy = "database"
     /\ secrets[SecretId(local[p].credential)].value = SmtpPayload


\* C21: a SECRETS_MANAGER credential whose name holds no token is classified
\* by its payload, the first rule that matches: password with username, host
\* or engine - database (also when an SMTP field is present); else
\* smtp_password or smtp_host - SMTP; else password - database; a payload that
\* is not an object of fields - database. (Stated for the classifications
\* whose read returned the current payload.)
PayloadRulesInOrder ==
  \A p \in Procs :
     LET frame == local[p]
         payload == secrets[SecretId(frame.credential)].value
         has(f) == payload.fields[f] # Undefined IN
     /\ frame.pc = "secret_read"
     /\ frame.credential.type \in SecretsManagerTypes
     /\ TypeByName(frame.credential.name) = ""
     /\ faults = 0
     => IF payload.kind # "object" THEN frame.strategy = "database"
        ELSE IF has("password") /\ (has("username") \/ has("host") \/ has("engine"))
          THEN frame.strategy = "database"
        ELSE IF has("smtp_password") \/ has("smtp_host") THEN frame.strategy = "smtp"
        ELSE IF has("password") THEN frame.strategy = "database"
        ELSE TRUE

ScalarPayloadGoesGeneric ==
  \E p \in Procs :
     /\ local[p].pc = "secret_read"
     /\ local[p].credential.type \in SecretsManagerTypes
     /\ local[p].credential.name = NameApp
     /\ faults = 0
     /\ secrets[SecretId(local[p].credential)].value = Scalar(OldValue)
     /\ local[p].strategy = "generic"


\* C22: when the read of the secret raises during the classification, the
\* credential is classified as a database password and the attempt goes on
\* to the database strategy; the classification step returns no failure.
ClassificationReadFailureDefaults ==
  [][\A p \in Procs :
       LET secret == secrets[SecretId(local[p].credential)] IN
       /\ local[p].pc = "sm_classify"
       /\ faults' # faults
       /\ secret.stale = secret.value
       => /\ local'[p].pc = "secret_read"
          /\ local'[p].strategy = "database"
          /\ local'[p].result = NoResult]_vars

RotatedAfterClassificationReadFailure ==
  \E p \in Procs :
     /\ Returned(p)
     /\ local[p].result.success
     /\ local[p].credential.type \in SecretsManagerTypes
     /\ local[p].credential.name = NameApp
     /\ local[p].strategy = "database"
     /\ faults = 1
     /\ secrets[SecretId(local[p].credential)].stale = SmtpPayload
     /\ secrets[SecretId(local[p].credential)].value.fields["password"] > OldValue


\* The audit records with `action` that the attempt of p has appended.
AppendedBy(p, action) ==
  {i \in (observed[p].auditAtStart + 1)..Len(auditLogs) : auditLogs[i].action = action}

NotFoundIsRecorded ==
  \A p \in Procs :
     local[p].pc = "idle" /\ local[p].response.statusCode = 404 =>
        /\ Len(local[p].response.results) = 1
        /\ \A i \in DOMAIN local[p].response.results : ~local[p].response.results[i].success
        /\ auditLogs # <<>>
        /\ auditLogs[Len(auditLogs)].action = "rotation_failed"

NotFoundLeftNoRecord ==
  \E p \in Procs :
     /\ local[p].pc = "idle"
     /\ local[p].response = Respond(404, "Credential not found", <<>>)
     /\ invocations = 1
     /\ auditLogs = <<>>
     /\ notifications = <<>>


\* The errors of the strategies whose read or write of the secret raised.
StoreErrors == {"Failed to get secret", "Failed to update secret"}

\* C25: database, SMTP, generic: when the read or the write of the secret
\* raises, the outcome is success:false with the error of that call, the
\* secret is what it was before the attempt, lastRotated and expiresIn of the
\* record are unchanged, and the status ends as active.
StoreFailureLeavesSecret ==
  \A p \in Procs :
     local[p].strategy \in SecretStrategies =>
        /\ StrategyReturned(p) /\ observed[p].written = NoSecret =>
              /\ ~local[p].result.success
              /\ local[p].result.error \in StoreErrors \cup {"TypeError"}
        /\ Returned(p) /\ local[p].result.error \in StoreErrors =>
              /\ ~local[p].result.success
              /\ observed[p].written = NoSecret
              /\ invocations = 1 =>
                   \A a \in Arns : secrets[a].value = secrets[a].stale
              /\ Record(p).lastRotated = local[p].credential.lastRotated
              /\ Record(p).expiresIn = local[p].credential.expiresIn
              /\ Record(p).status = "active"

WriteRaisedAndStatusActive ==
  \E p \in Procs :
     /\ Returned(p)
     /\ local[p].strategy = "database"
     /\ local[p].result = Failure("Failed to update secret")
     /\ secrets[SecretId(local[p].credential)].value = DbPayload
     /\ Record(p).status = "active"
     /\ Record(p).expiresIn = local[p].credential.expiresIn


\* C26: a publish of the notification that raises changes neither the outcome
\* already computed for the credential nor any inventory record, and the
\* credential is not attempted again: the pass goes on with the credentials
\* it had left.
NotificationFailureIsSwallowed ==
  [][\A p \in Procs :
       local[p].pc = "batch_notify" /\ local'[p].pc # "batch_notify" /\ faults' # faults =>
          /\ local'[p].pc = "batch_loop"
          /\ local'[p].result = local[p].result
          /\ local'[p].rotationResults = local[p].rotationResults
          /\ local'[p].credentialsToRotate = local[p].credentialsToRotate
          /\ credentialsTable' = credentialsTable
          /\ secrets' = secrets
          /\ auditLogs' = auditLogs]_vars

PublishRaisedAfterSuccess ==
  \E p \in Procs :
     /\ local[p].pc = "batch_loop"
     /\ local[p].entry = "batch"
     /\ local[p].credential # NoCredential
     /\ Len(notifications) = observed[p].notificationsAtStart
     /\ faults = 1
     /\ local[p].rotationResults = <<Success>>
     /\ Record(p).status = "active"
     /\ Record(p).expiresIn = RotationPeriod


\* C27: a restart of the dependent services that raises leaves the outcome a
\* success, and the commit of the rotated credential follows it: the final
\* inventory write of a successful attempt, when it returns, is the commit.
RestartFailureIsSwallowed ==
  [][\A p \in Procs :
       /\ local[p].pc = "restart" /\ local'[p].pc # "restart" /\ faults' # faults =>
             /\ local'[p].pc = "rci_finish"
             /\ local'[p].result = Success
             /\ credentialsTable' = credentialsTable
       /\ local[p].pc = "rci_finish" /\ local'[p].pc # "rci_finish"
          /\ local[p].result.success /\ faults' = faults =>
             /\ local'[p].result = Success
             /\ credentialsTable' =
                  UpdateCredentialRotation(credentialsTable, local[p].credential.id, now)]_vars

CommittedAfterRestartRaised ==
  \E p \in Procs :
     /\ Returned(p)
     /\ local[p].entry = "one"
     /\ local[p].strategy = "github"
     /\ local[p].result.success
     /\ faults = 1
     /\ Len(auditLogs) = observed[p].auditAtStart + 1
     /\ Record(p).status = "active"
     /\ Record(p).expiresIn = RotationPeriod
     /\ Record(p).lastRotated = now


\* C28: with the topic configured, every attempt, through the batch entry
\* point and through rotate-one alike, publishes exactly one notification,
\* which carries the outcome of the attempt (stated for the behaviours in
\* which no service call has failed).
ExactlyOneNotification ==
  \A p \in Procs :
     /\ AttemptEnded(p) /\ faults = 0 =>
           /\ Len(notifications) = observed[p].notificationsAtStart + 1
           /\ notifications[Len(notifications)] =
                NotificationMessage(local[p].credential, local[p].result)
     /\ local[p].pc = "batch_notify" =>
           Len(notifications) = observed[p].notificationsAtStart

RotateOneSentNoNotification ==
  \E p \in Procs :
     /\ Returned(p)
     /\ local[p].entry = "one"
     /\ local[p].result.success
     /\ faults = 0
     /\ Len(auditLogs) = observed[p].auditAtStart + 1
     /\ Len(notifications) = observed[p].notificationsAtStart


OnlyTheEngineChangesRotationFields ==
  [][\A id \in CredIds :
       \/ credentialsTable'[id].status # credentialsTable[id].status
       \/ credentialsTable'[id].lastRotated # credentialsTable[id].lastRotated
       \/ credentialsTable'[id].expiresIn # credentialsTable[id].expiresIn
       => \E p \in Procs :
             /\ local[p].credential.id = id
             /\ local[p].pc \in {"rci_start", "rci_finish"}
             /\ local'[p].pc # local[p].pc]_vars

ScanOverwroteRotating ==
  \E p \in Procs :
     /\ local[p].pc = "secret_write"
     /\ local[p].strategy = "database"
     /\ observed[p].preStatus = "expiring"
     /\ faults = 0
     /\ Record(p).status = "expiring"
     /\ Record(p).expiresIn = local[p].credential.expiresIn


\* C31: every change the engine makes to the status of a credential is either
\* into rotating, by the first write of an attempt on it, or from rotating to
\* active, by the final write of an attempt on it; the engine never writes
\* failed, expired or expiring.
StatusChangesAreRotatingOrActive ==
  [][\A id \in CredIds :
       credentialsTable'[id].status # credentialsTable[id].status =>
          \E p \in Procs :
             /\ local[p].credential.id = id
             /\ local'[p].pc # local[p].pc
             /\ \/ /\ local[p].pc = "rci_start"
                   /\ credentialsTable'[id].status = "rotating"
                \/ /\ local[p].pc = "rci_finish"
                   /\ credentialsTable[id].status = "rotating"
                   /\ credentialsTable'[id].status = "active"]_vars

FailedAttemptWroteActive ==
  \E p \in Procs :
     /\ PastFinalWrite(p)
     /\ ~local[p].result.success
     /\ local[p].strategy = "database"
     /\ observed[p].preStatus = "expiring"
     /\ observed[p].written # NoSecret
     /\ Record(p).status = "active"


\* C32: a step of the attempt on one credential, whether the attempt succeeds
\* or fails, leaves the inventory record of every other credential (status,
\* lastRotated, expiresIn, metadata) as it is and writes no secret but the
\* one the credential refers to.
OtherCredentialsUntouched ==
  [][\A p \in Procs :
       /\ InPipeline(p)
       /\ local'[p] # local[p]
       /\ \A q \in Procs \ {p} : local'[q] = local[q]
       => /\ \A id \in CredIds \ {local[p].credential.id} :
                credentialsTable'[id] = credentialsTable[id]
          /\ \A a \in Arns \ {SecretId(local[p].credential)} :
                secrets'[a] = secrets[a]]_vars

RotatedBesideUntouched ==
  \E p \in Procs :
     /\ Returned(p)
     /\ local[p].credential.id = "c1"
     /\ local[p].strategy = "database"
     /\ local[p].result.success
     /\ secrets[ArnOf("c1")].value # secrets[ArnOf("c1")].stale
     /\ secrets[ArnOf("c2")].value = Text(OldValue)
     /\ credentialsTable["c2"] = C2Record(80)
     /\ credentialsTable["c1"].status = "active"


\* C33: database, SMTP, generic: a payload that is not an object of fields
\* (text, or a JSON scalar) is replaced as a whole by the new password; the
\* write of such a payload neither raises by itself nor leaves the payload
\* as it was.
OpaquePayloadReplacedWhole ==
  \A p \in Procs :
     local[p].strategy \in SecretStrategies =>
        /\ local[p].pc = "secret_verify" /\ local[p].secretData.kind # "object" =>
              /\ observed[p].written = Text(local[p].newPassword)
              /\ secrets[SecretId(local[p].credential)].value = Text(local[p].newPassword)
        /\ StrategyReturned(p) => local[p].result.error # "TypeError"

ScalarPayloadNotRotated ==
  \E p \in Procs :
     /\ Returned(p)
     /\ local[p].strategy = "database"
     /\ ~local[p].result.success
     /\ faults = 0
     /\ secrets[SecretId(local[p].credential)].value = Scalar(OldValue)
     /\ Record(p).expiresIn = local[p].credential.expiresIn


\* C34: while an invocation is between the initial status write of
\* rotateCredentialInternal and its final write for a credential, the record
\* of that credential reads rotating, also when two invocations overlap on
\* the same credential.
RotatingWhileInFlight ==
  \A p \in Procs :
     InPipeline(p) /\ local[p].pc \notin {"rci_start", "rci_log"} =>
        Record(p).status = "rotating"

ActiveUnderRunningPipeline ==
  \E p, q \in Procs :
     /\ p # q
     /\ local[p].credential.id = local[q].credential.id
     /\ PastFinalWrite(p)
     /\ local[q].pc \in {"iam_store", "iam_delete", "secret_write", "secret_verify", "restart", "rci_finish"}
     /\ Record(q).status = "active"


OnlyRecordedKeyValid ==
  \A id \in CredIds :
     /\ credentialsTable[id].type \in IAMTypes
     /\ \A q \in Procs : ~InPipeline(q)
     /\ Len(auditLogs) > 0
     /\ auditLogs[Len(auditLogs)] = AuditRecord("rotation", credentialsTable[id], "success")
     => accessKeys = {credentialsTable[id].metadata.accessKeyId}

UnrecordedKeyValidAfterSuccess ==
  \E p, q \in Procs :
     /\ p # q
     /\ Returned(p) /\ local[p].strategy = "iam" /\ local[p].result.success
     /\ Returned(q) /\ local[q].strategy = "iam" /\ ~local[q].result.success
     /\ local[p].credential.id = local[q].credential.id
     /\ auditLogs[Len(auditLogs)] = AuditRecord("rotation", local[p].credential, "success")
     /\ Cardinality(accessKeys) = AccessKeysQuota
     /\ Record(p).metadata.accessKeyId \in accessKeys
     /\ OldValue \notin accessKeys


\* The metadata fields an acknowledged updateCredentialInStorage of p names.
NamedInUpdate(p) ==
  CASE local[p].pc = "iam_store" -> {"accessKeyId", "secretAccessKey", "lastRotated"}
    [] local[p].pc = "token_store" -> {"token", "lastRotated"}
    [] local[p].pc = "secret_store" -> {"password", "lastRotated"}
    [] OTHER -> {}

\* C37: a metadata update of a strategy changes, in the record as it is in the
\* table at the time of the write, only the fields the update names: every
\* other metadata field keeps the value the table held, also one that a scan
\* or another invocation stored after the attempt read the credential.
MetadataUpdateKeepsOtherFields ==
  [][\A p \in Procs :
       /\ local[p].pc \in {"iam_store", "token_store", "secret_store"}
       /\ local'[p].pc # local[p].pc
       /\ credentialsTable' # credentialsTable
       => \A k \in DOMAIN Record(p).metadata \ NamedInUpdate(p) :
             credentialsTable'[local[p].credential.id].metadata[k] = Record(p).metadata[k]]_vars

ScanStoredDescriptionAfterRead ==
  \E p \in Procs :
     /\ local[p].pc = "secret_store"
     /\ Record(p).metadata.description # local[p].credential.metadata.description
     /\ Record(p).status # "rotating"


\* C38: the rotate-one handler answers with status 200 and the message
\* "Credential rotated successfully" only for an outcome with success:true.
SuccessResponseOnlyOnSuccess ==
  \A p \in Procs :
     /\ local[p].pc = "idle"
     /\ local[p].response.statusCode = 200
     /\ local[p].response.message = "Credential rotated successfully"
     => \A i \in DOMAIN local[p].response.results : local[p].response.results[i].success

FailureAnsweredAsSuccess ==
  \E p \in Procs :
     /\ local[p].pc = "idle"
     /\ local[p].response.statusCode = 200
     /\ local[p].response.message = "Credential rotated successfully"
     /\ Len(local[p].response.results) = 1
     /\ ~local[p].response.results[1].success
     /\ faults = 0


\* The step is a PutCommand of the scan on the record id.
ScanWrote(id) == local' = local /\ credentialsTable'[id] # credentialsTable[id]

\* C39: every Secrets Manager record a scan writes has expiresIn = 90 - age,
\* status expired exactly when expiresIn < 0, expiring exactly when
\* 0 <= expiresIn < 15 and active otherwise; a record the scan marks expiring
\* or expired is selected by the due rule.
ScanStatusAgreesWithExpiresIn ==
  [][\A id \in CredIds :
       ScanWrote(id) =>
          LET before == credentialsTable[id]
              secret == secrets[before.metadata.arn]
              age == IF secret.value # secret.stale THEN 0 ELSE 0 - before.lastRotated
              written == credentialsTable'[id] IN
          /\ written.expiresIn = 90 - age
          /\ written.status = "expired" <=> written.expiresIn < 0
          /\ written.status = "expiring" <=> 0 <= written.expiresIn /\ written.expiresIn < 15
          /\ written.status = "active" <=> written.expiresIn >= 15
          /\ written.status \in {"expiring", "expired"} => IsDue(written)]_vars

ScanMarkedBoundaryAge ==
  \E id \in CredIds :
     /\ credentialsTable[id].metadata.arn \in Arns
     /\ credentialsTable[id].metadata.description # OldValue
     /\ credentialsTable[id].expiresIn = 0
     /\ credentialsTable[id].status = "expiring"
     /\ IsDue(credentialsTable[id])


\* C40: when a scan has completed and updated the account record,
\* credentialsFound is the number of records that scan wrote to the
\* credentials table.
CredentialsFoundCountsWrittenRecords ==
  scan.pc = "done" => accountsTable.credentialsFound = scan.written

CountedUnwrittenRecord ==
  /\ scan.pc = "done"
  /\ scan.written >= 1
  /\ accountsTable.credentialsFound = scan.written + 1

====
